---------------------------- MODULE Spec2Model ----------------------------
(***************************************************************************)
(* Model of the throbber crate (src/src/lib.rs): the Throbber handle, the  *)
(* mpsc command channel, the park token of the animation thread and the    *)
(* loop of animation_thread.                                               *)
(*                                                                         *)
(* The handle thread and the animation thread interleave at the points     *)
(* where they touch shared state: a send, an unpark, a try_recv, a park, a *)
(* write to stdout, the end of a sleep, a join.                            *)
(***************************************************************************)
EXTENDS Integers, Sequences, FiniteSets, TLC

(* ------------------------------ bounds -------------------------------- *)

\* Number of calls the caller makes on the handle in one behaviour of Spec.
MaxOps ==
    4

\* Number of calls the caller makes on the handle in one behaviour of FairSpec.
MaxLiveOps ==
    3

\* Number of calls the caller makes on the handle in one behaviour of MsgSpec.
MaxMsgOps ==
    3

(* ------------------------- program constants -------------------------- *)

DEFAULT_F ==
    <<"d0", "d1", "d2", "d3", "d4", "d5", "d6", "d7", "d8", "d9">>

ROTATE_F ==
    <<"|", "/", "-", "\\">>

\* Duration::from_millis(200), in milliseconds.
DefaultInterval ==
    200

\* A slice with no frames: a value of type &'static [&'static str].
EmptyF ==
    <<>>

(* --------------------------- input domains ---------------------------- *)

\* Messages of the animation; Throbber::new() gives "".
Msgs ==
    {"a"}

\* Messages of the animation in MsgSpec.
Msgs2 ==
    {"a", "b"}

\* Messages of success and fail.
StatusMsgs ==
    {"s"}

Intervals ==
    {50}

Tables ==
    {EmptyF, ROTATE_F}

(* ------------------------------ state --------------------------------- *)

VARIABLES
    anim,       \* Throbber.anim: "none" (None), "some" (Some), "taken" (moved out by end)
    message,    \* Throbber.message
    interval,   \* Throbber.interval
    frames,     \* Throbber.frames
    hpc,        \* where the caller's thread is inside a method of the handle
    harg,       \* the value a change_* call still has to store in the handle
    queue,      \* the signals sent and not yet received
    token,      \* the park token of the animation thread
    wpc,        \* where the animation thread is in its loop
    msg,        \* animation_thread: msg
    w_frames,   \* animation_thread: frames
    w_interval, \* animation_thread: interval
    play_anim,  \* animation_thread: play_anim
    frame,      \* animation_thread: frame
    left,       \* environment: number of calls the caller still makes on the handle
    spawned,    \* history: number of thread::spawn calls
    out,        \* history: the status lines written to stdout, with their writer
    calls,      \* history: the success / fail calls made, and whether a link existed
    last,       \* history: the last frame rendered, and the index of the one before
    changed,    \* history: a ChFrames signal was received
    chT,        \* history: the table of a received ChFrames with no frame rendered since
    afterEnd,   \* history: frames rendered since the End signal was sent (up to 2)
    lastRecv,   \* history: the last signal received and play_anim at that moment
    swm         \* history: the last start_with_msg the worker has applied

hvars ==
    <<anim, message, interval, frames, hpc, harg>>

wvars ==
    <<wpc, msg, w_frames, w_interval, play_anim, frame>>

histvars ==
    <<left, spawned, out, calls, last, changed, chT, afterEnd, lastRecv, swm>>

vars ==
    <<anim, message, interval, frames, hpc, harg, queue, token,
      wpc, msg, w_frames, w_interval, play_anim, frame,
      left, spawned, out, calls, last, changed, chT, afterEnd, lastRecv, swm>>

(* ----------------------------- signals -------------------------------- *)

\* enum ThrobberSignal
Sig(op, arg) ==
    [op |-> op, arg |-> arg]

NoArg ==
    <<>>

NoTable ==
    <<"no table">>

NoFrame ==
    [idx |-> -1, glyph |-> "", msg |-> "", prev |-> -1]

NoSignal ==
    [op |-> "none", play |-> FALSE]

\* No start_with_msg applied yet. Of an applied one: its message m, whether a
\* frame was rendered since (shown), and whether a ChMsg was received after it and
\* before that frame (over).
NoSwm ==
    [on |-> FALSE, m |-> "", over |-> FALSE, shown |-> FALSE]

Applied(m) ==
    [on |-> TRUE, m |-> m, over |-> FALSE, shown |-> FALSE]

\* The animation thread has returned or unwound: its Receiver is dropped.
WorkerGone ==
    wpc \in {"done", "panicked"}

\* The animation thread was spawned and has not ended.
WorkerAlive ==
    wpc \in {"recv", "park", "render", "sleep"}

\* Every Sender is dropped: the handle was dropped, consumed by end, or unwound.
SenderDropped ==
    hpc \in {"dropped", "ended", "panicked"}

(* --------------------------- construction ----------------------------- *)

\* Throbber::new(), and no animation thread yet.
New ==
    /\ anim = "none"
    /\ message = ""
    /\ interval = DefaultInterval
    /\ frames = DEFAULT_F
    /\ hpc = "idle"
    /\ harg = NoArg
    /\ queue = <<>>
    /\ token = FALSE
    /\ wpc = "none"
    /\ msg = ""
    /\ w_frames = EmptyF
    /\ w_interval = 0
    /\ play_anim = FALSE
    /\ frame = 0
    /\ spawned = 0
    /\ out = <<>>
    /\ calls = <<>>
    /\ last = NoFrame
    /\ changed = FALSE
    /\ chT = NoTable
    /\ afterEnd = 0
    /\ lastRecv = NoSignal
    /\ swm = NoSwm

Init ==
    /\ New
    /\ left = MaxOps

LiveInit ==
    /\ New
    /\ left = MaxLiveOps

MsgInit ==
    /\ New
    /\ left = MaxMsgOps

(* ------------------------ the handle: Throbber ------------------------ *)

\* A call on the handle begins: the caller is between calls and may make one more.
Call ==
    /\ hpc = "idle"
    /\ left > 0
    /\ left' = left - 1

\* Mutant of Send: the channel hands out the newest signal first.
SendFront(sig, next) ==
    IF WorkerGone
    THEN /\ hpc' = "panicked"
         /\ UNCHANGED queue
    ELSE /\ hpc' = next
         /\ queue' = <<sig>> \o queue

\* sender.send(sig).unwrap(), the caller going on to `next`: the signal is queued,
\* or, the Receiver being dropped, send returns Err and unwrap panics.
Send(sig, next) ==
    IF WorkerGone
    THEN /\ hpc' = "panicked"
         /\ UNCHANGED queue
    ELSE /\ hpc' = next
         /\ queue' = Append(queue, sig)

\* Throbber::message
message_(m) ==
    /\ Call
    /\ message' = m
    /\ UNCHANGED <<anim, interval, frames, hpc, harg, queue, token>>
    /\ UNCHANGED wvars
    /\ UNCHANGED <<spawned, out, calls, last, changed, chT, afterEnd, lastRecv, swm>>

\* Throbber::interval
interval_(d) ==
    /\ Call
    /\ interval' = d
    /\ UNCHANGED <<anim, message, frames, hpc, harg, queue, token>>
    /\ UNCHANGED wvars
    /\ UNCHANGED <<spawned, out, calls, last, changed, chT, afterEnd, lastRecv, swm>>

\* Mutant of frames_: the builder setter also sends the table to a live worker.
frames_Propagates(t) ==
    /\ Call
    /\ frames' = t
    /\ queue' = IF anim = "some" /\ ~WorkerGone
                THEN Append(queue, Sig("ChFrames", t)) ELSE queue
    /\ UNCHANGED <<anim, message, interval, hpc, harg, token>>
    /\ UNCHANGED wvars
    /\ UNCHANGED <<spawned, out, calls, last, changed, chT, afterEnd, lastRecv, swm>>

\* Throbber::frames
frames_(t) ==
    /\ Call
    /\ frames' = t
    /\ UNCHANGED <<anim, message, interval, hpc, harg, queue, token>>
    /\ UNCHANGED wvars
    /\ UNCHANGED <<spawned, out, calls, last, changed, chT, afterEnd, lastRecv, swm>>

\* The body of change_message / change_interval / change_frames up to the send:
\* with a link, send the signal and go on to unpark (pc `next`); the field of the
\* handle is stored after the unpark. Without a link only the field is stored.
Change(field, sigop, v, next, done) ==
    IF anim = "some"
    THEN /\ Send(Sig(sigop, v), next)
         /\ harg' = IF WorkerGone THEN NoArg ELSE <<field, v>>
         /\ UNCHANGED <<message, interval, frames>>
    ELSE /\ hpc' = done
         /\ message' = IF field = "message" THEN v ELSE message
         /\ interval' = IF field = "interval" THEN v ELSE interval
         /\ frames' = IF field = "frames" THEN v ELSE frames
         /\ UNCHANGED <<harg, queue>>

\* Throbber::change_message
change_message(m) ==
    /\ Call
    /\ Change("message", "ChMsg", m, "unpark", "idle")
    /\ UNCHANGED <<anim, token>>
    /\ UNCHANGED wvars
    /\ UNCHANGED <<spawned, out, calls, last, changed, chT, afterEnd, lastRecv, swm>>

\* Throbber::change_interval
change_interval(d) ==
    /\ Call
    /\ Change("interval", "ChInt", d, "unpark", "idle")
    /\ UNCHANGED <<anim, token>>
    /\ UNCHANGED wvars
    /\ UNCHANGED <<spawned, out, calls, last, changed, chT, afterEnd, lastRecv, swm>>

\* Throbber::change_frames: the table is sent and stored whatever its length.
change_frames(t) ==
    /\ Call
    /\ Change("frames", "ChFrames", t, "unpark", "idle")
    /\ UNCHANGED <<anim, token>>
    /\ UNCHANGED wvars
    /\ UNCHANGED <<spawned, out, calls, last, changed, chT, afterEnd, lastRecv, swm>>

\* Mutant of Unpark: the thread is not unparked after the send.
UnparkForgotten ==
    /\ hpc \in {"unpark", "unpark_swm"}
    /\ message' = IF harg # NoArg /\ harg[1] = "message" THEN harg[2] ELSE message
    /\ interval' = IF harg # NoArg /\ harg[1] = "interval" THEN harg[2] ELSE interval
    /\ frames' = IF harg # NoArg /\ harg[1] = "frames" THEN harg[2] ELSE frames
    /\ harg' = NoArg
    /\ hpc' = IF hpc = "unpark_swm" THEN "swm" ELSE "idle"
    /\ UNCHANGED <<anim, queue, token>>
    /\ UNCHANGED wvars
    /\ UNCHANGED histvars

\* thread().unpark() after a send, then the store into the handle's field that
\* ends a change_* call. The token is set whether or not the thread is parked.
Unpark ==
    /\ hpc \in {"unpark", "unpark_swm"}
    /\ token' = TRUE
    /\ message' = IF harg # NoArg /\ harg[1] = "message" THEN harg[2] ELSE message
    /\ interval' = IF harg # NoArg /\ harg[1] = "interval" THEN harg[2] ELSE interval
    /\ frames' = IF harg # NoArg /\ harg[1] = "frames" THEN harg[2] ELSE frames
    /\ harg' = NoArg
    /\ hpc' = IF hpc = "unpark_swm" THEN "swm" ELSE "idle"
    /\ UNCHANGED <<anim, queue>>
    /\ UNCHANGED wvars
    /\ UNCHANGED histvars

\* Mutant of Spawn: the thread is started with the configuration of new().
SpawnDefaults ==
    /\ spawned' = spawned + 1
    /\ anim' = "some"
    /\ hpc' = "idle"
    /\ wpc' = "recv"
    /\ msg' = ""
    /\ w_frames' = DEFAULT_F
    /\ w_interval' = DefaultInterval
    /\ play_anim' = TRUE
    /\ frame' = 0
    /\ UNCHANGED queue

\* thread::spawn(move || animation_thread(receiver, msg, frames, interval)) and
\* the first lines of animation_thread: the thread starts at the top of its loop.
Spawn ==
    /\ spawned' = spawned + 1
    /\ anim' = "some"
    /\ hpc' = "idle"
    /\ wpc' = "recv"
    /\ msg' = message
    /\ w_frames' = frames
    /\ w_interval' = interval
    /\ play_anim' = TRUE
    /\ frame' = 0
    /\ UNCHANGED queue

\* Mutant of StartBody: the early return of start is missing, every start spawns.
StartBodyRespawns ==
    Spawn

\* The body of Throbber::start: with a link, send Start and go on to unpark;
\* without one, create the channel and spawn the animation thread. Start has no
\* payload; for the history, the Start sent by start_with_msg(m) is marked <<m>>
\* (self.message is m at that point), which the worker never reads.
StartBody ==
    IF anim = "some"
    THEN /\ Send(Sig("Start", IF hpc = "swm" THEN <<message>> ELSE NoArg), "unpark")
         /\ UNCHANGED <<anim, spawned>>
         /\ UNCHANGED wvars
    ELSE Spawn

\* Throbber::start
start ==
    /\ Call
    /\ StartBody
    /\ UNCHANGED <<message, interval, frames, harg, token>>
    /\ UNCHANGED <<out, calls, last, changed, chT, afterEnd, lastRecv, swm>>

\* Throbber::start_with_msg, its first half: self.change_message(msg).
start_with_msg(m) ==
    /\ Call
    /\ Change("message", "ChMsg", m, "unpark_swm", "swm")
    /\ UNCHANGED <<anim, token>>
    /\ UNCHANGED wvars
    /\ UNCHANGED <<spawned, out, calls, last, changed, chT, afterEnd, lastRecv, swm>>

\* Throbber::start_with_msg, its second half: self.start().
start_with_msg_start ==
    /\ hpc = "swm"
    /\ StartBody
    /\ swm' = IF anim = "some" THEN swm ELSE Applied(message)
    /\ UNCHANGED <<message, interval, frames, harg, token>>
    /\ UNCHANGED <<left, out, calls, last, changed, chT, afterEnd, lastRecv>>

\* Throbber::finish
finish ==
    /\ Call
    /\ IF anim = "some"
       THEN Send(Sig("Finish", NoArg), "unpark")
       ELSE UNCHANGED <<hpc, queue>>
    /\ UNCHANGED <<anim, message, interval, frames, harg, token>>
    /\ UNCHANGED wvars
    /\ UNCHANGED <<spawned, out, calls, last, changed, chT, afterEnd, lastRecv, swm>>

\* Mutant of Status: without a link the call prints nothing, as finish does.
StatusSilent(sigop, mark, m) ==
    IF anim = "some"
    THEN /\ Send(Sig(sigop, m), "unpark")
         /\ UNCHANGED out
    ELSE UNCHANGED <<hpc, queue, out>>

\* Mutant of Status: the caller prints the line itself, and with a link the signal
\* is sent too.
StatusCallerAlways(sigop, mark, m) ==
    /\ out' = Append(out, <<"caller", mark, m>>)
    /\ IF anim = "some"
       THEN Send(Sig(sigop, m), "unpark")
       ELSE UNCHANGED <<hpc, queue>>

\* The body of Throbber::success (mark "succ") and Throbber::fail (mark "fail"):
\* with a link the signal is sent, without one the caller prints the line itself.
Status(sigop, mark, m) ==
    IF anim = "some"
    THEN /\ Send(Sig(sigop, m), "unpark")
         /\ UNCHANGED out
    ELSE /\ out' = Append(out, <<"caller", mark, m>>)
         /\ UNCHANGED <<hpc, queue>>

\* Throbber::success
success(m) ==
    /\ Call
    /\ Status("Succ", "succ", m)
    /\ calls' = Append(calls, [mark |-> "succ", msg |-> m, link |-> anim = "some"])
    /\ UNCHANGED <<anim, message, interval, frames, harg, token>>
    /\ UNCHANGED wvars
    /\ UNCHANGED <<spawned, last, changed, chT, afterEnd, lastRecv, swm>>

\* Throbber::fail
fail(m) ==
    /\ Call
    /\ Status("Fail", "fail", m)
    /\ calls' = Append(calls, [mark |-> "fail", msg |-> m, link |-> anim = "some"])
    /\ UNCHANGED <<anim, message, interval, frames, harg, token>>
    /\ UNCHANGED wvars
    /\ UNCHANGED <<spawned, last, changed, chT, afterEnd, lastRecv, swm>>

\* Mutant of end: the End signal goes ahead of the signals already queued.
endOvertakes ==
    /\ Call
    /\ IF anim = "some"
       THEN /\ anim' = "taken"
            /\ SendFront(Sig("End", NoArg), "end_unpark")
       ELSE /\ hpc' = "ended"
            /\ UNCHANGED <<anim, queue>>
    /\ UNCHANGED <<message, interval, frames, harg, token>>
    /\ UNCHANGED wvars
    /\ UNCHANGED <<spawned, out, calls, last, changed, chT, afterEnd, lastRecv, swm>>

\* Throbber::end, up to the send: self.anim.take(), then send End.
end ==
    /\ Call
    /\ IF anim = "some"
       THEN /\ anim' = "taken"
            /\ Send(Sig("End", NoArg), "end_unpark")
       ELSE /\ hpc' = "ended"
            /\ UNCHANGED <<anim, queue>>
    /\ UNCHANGED <<message, interval, frames, harg, token>>
    /\ UNCHANGED wvars
    /\ UNCHANGED <<spawned, out, calls, last, changed, chT, afterEnd, lastRecv, swm>>

\* Mutant of end_unpark: end does not unpark the thread before it joins.
end_unparkForgotten ==
    /\ hpc = "end_unpark"
    /\ hpc' = "join"
    /\ UNCHANGED <<anim, message, interval, frames, harg, queue, token>>
    /\ UNCHANGED wvars
    /\ UNCHANGED histvars

\* Throbber::end: anim.thread.thread().unpark()
end_unpark ==
    /\ hpc = "end_unpark"
    /\ token' = TRUE
    /\ hpc' = "join"
    /\ UNCHANGED <<anim, message, interval, frames, harg, queue>>
    /\ UNCHANGED wvars
    /\ UNCHANGED histvars

\* Throbber::end: anim.thread.join().unwrap() returns once the thread has ended;
\* join gives Err for a thread that panicked, and unwrap panics on it.
end_join ==
    /\ hpc = "join"
    /\ WorkerGone
    /\ hpc' = IF wpc = "panicked" THEN "panicked" ELSE "ended"
    /\ UNCHANGED <<anim, message, interval, frames, harg, queue, token>>
    /\ UNCHANGED wvars
    /\ UNCHANGED histvars

\* The handle goes out of scope without end(): Throbber has no Drop of its own, so
\* the Sender is dropped (the channel disconnects) and the JoinHandle is dropped
\* (the thread is detached). Nothing is sent and nothing is unparked.
drop ==
    /\ Call
    /\ hpc' = "dropped"
    /\ UNCHANGED <<anim, message, interval, frames, harg, queue, token>>
    /\ UNCHANGED wvars
    /\ UNCHANGED <<spawned, out, calls, last, changed, chT, afterEnd, lastRecv, swm>>

(* ------------------- the worker: animation_thread --------------------- *)

\* What the handle's variables and the park token do in a step of the worker.
WorkerStep ==
    /\ UNCHANGED hvars
    /\ UNCHANGED <<left, spawned, calls>>

\* Mutant of OnStart: a start begins the animation again at its first frame.
OnStartResets ==
    /\ play_anim' = TRUE
    /\ frame' = 0
    /\ UNCHANGED <<wpc, msg, w_frames, w_interval, out, changed, chT>>

\* Ok(ThrobberSignal::Start)
OnStart ==
    /\ play_anim' = TRUE
    /\ UNCHANGED <<wpc, msg, w_frames, w_interval, frame, out, changed, chT>>

\* Mutant of OnFinish: the line is erased but the animation goes on.
OnFinishKeepsPlaying ==
    /\ UNCHANGED <<wpc, msg, w_frames, w_interval, play_anim, frame, out, changed, chT>>

\* Ok(ThrobberSignal::Finish): the line is erased, nothing is printed.
OnFinish ==
    /\ play_anim' = FALSE
    /\ UNCHANGED <<wpc, msg, w_frames, w_interval, frame, out, changed, chT>>

\* Mutant of OnStatus: the status line carries the animation's message.
OnStatusWrongMsg(mark, m) ==
    /\ out' = Append(out, <<"worker", mark, msg>>)
    /\ play_anim' = FALSE
    /\ UNCHANGED <<wpc, msg, w_frames, w_interval, frame, changed, chT>>

\* Ok(ThrobberSignal::Succ(succ_msg)) with mark "succ", Ok(ThrobberSignal::Fail(fail_msg))
\* with mark "fail": println!("\x1B[2K\r<mark> {}", m)
OnStatus(mark, m) ==
    /\ out' = Append(out, <<"worker", mark, m>>)
    /\ play_anim' = FALSE
    /\ UNCHANGED <<wpc, msg, w_frames, w_interval, frame, changed, chT>>

\* Mutant of OnChMsg: a message sent to a stopped animation is dropped.
OnChMsgWhenPlaying(new_msg) ==
    /\ msg' = IF play_anim THEN new_msg ELSE msg
    /\ UNCHANGED <<wpc, w_frames, w_interval, play_anim, frame, out, changed, chT>>

\* Ok(ThrobberSignal::ChMsg(new_msg))
OnChMsg(new_msg) ==
    /\ msg' = new_msg
    /\ UNCHANGED <<wpc, w_frames, w_interval, play_anim, frame, out, changed, chT>>

\* Mutant of OnChInt: a running animation renders right after the new interval,
\* whatever else is queued.
OnChIntThenRender(new_dur) ==
    /\ w_interval' = new_dur
    /\ wpc' = IF play_anim THEN "render" ELSE wpc
    /\ UNCHANGED <<msg, w_frames, play_anim, frame, out, changed, chT>>

\* Ok(ThrobberSignal::ChInt(new_dur))
OnChInt(new_dur) ==
    /\ w_interval' = new_dur
    /\ UNCHANGED <<wpc, msg, w_frames, play_anim, frame, out, changed, chT>>

\* Mutant of OnChFrames: the frame index is kept.
OnChFramesKeepsIndex(new_frames) ==
    /\ w_frames' = new_frames
    /\ changed' = TRUE
    /\ chT' = new_frames
    /\ UNCHANGED <<wpc, msg, w_interval, play_anim, frame, out>>

\* Ok(ThrobberSignal::ChFrames(new_frames))
OnChFrames(new_frames) ==
    /\ w_frames' = new_frames
    /\ frame' = 0
    /\ changed' = TRUE
    /\ chT' = new_frames
    /\ UNCHANGED <<wpc, msg, w_interval, play_anim, out>>

\* Ok(ThrobberSignal::End): the line is erased and the loop is left.
OnEnd ==
    /\ wpc' = "done"
    /\ UNCHANGED <<msg, w_frames, w_interval, play_anim, frame, out, changed, chT>>

\* Err(TryRecvError::Disconnected): the line is erased and the loop is left.
OnDisconnected ==
    /\ wpc' = "done"
    /\ UNCHANGED <<msg, w_frames, w_interval, play_anim, frame, out, changed, chT>>

\* Err(TryRecvError::Empty): park when the animation is stopped, else fall through
\* to the rendering at the end of the loop body.
OnEmpty ==
    /\ wpc' = IF play_anim = FALSE THEN "park" ELSE "render"
    /\ UNCHANGED <<msg, w_frames, w_interval, play_anim, frame, out, changed, chT>>

\* The arm of the match that receives signal s.
OnSignal(s) ==
    CASE s.op = "Start" -> OnStart
      [] s.op = "Finish" -> OnFinish
      [] s.op = "Succ" -> OnStatus("succ", s.arg)
      [] s.op = "Fail" -> OnStatus("fail", s.arg)
      [] s.op = "ChMsg" -> OnChMsg(s.arg)
      [] s.op = "ChInt" -> OnChInt(s.arg)
      [] s.op = "ChFrames" -> OnChFrames(s.arg)
      [] s.op = "End" -> OnEnd

\* match receiver.try_recv(): a queued signal is received even after the Sender
\* was dropped; Disconnected is returned only once the queue is empty.
Recv ==
    /\ wpc = "recv"
    /\ IF queue # <<>>
       THEN /\ queue' = Tail(queue)
            /\ OnSignal(Head(queue))
            /\ lastRecv' = [op |-> Head(queue).op, play |-> play_anim]
            /\ swm' = CASE Head(queue).op = "Start" /\ Head(queue).arg # NoArg ->
                                Applied(Head(queue).arg[1])
                         [] Head(queue).op = "ChMsg" /\ swm.on /\ ~swm.shown ->
                                [swm EXCEPT !.over = TRUE]
                         [] OTHER -> swm
       ELSE /\ UNCHANGED <<queue, swm>>
            /\ lastRecv' = NoSignal
            /\ IF SenderDropped THEN OnDisconnected ELSE OnEmpty
    /\ WorkerStep
    /\ UNCHANGED <<token, last, afterEnd>>

\* thread::park() returns: the token is set (by an unpark made before or during
\* the park) and park consumes it.
Park ==
    /\ wpc = "park"
    /\ token
    /\ token' = FALSE
    /\ wpc' = "recv"
    /\ WorkerStep
    /\ UNCHANGED <<queue, msg, w_frames, w_interval, play_anim, frame>>
    /\ UNCHANGED <<out, last, changed, chT, afterEnd, lastRecv, swm>>

\* thread::park() returns spuriously, as its documentation allows: no token is
\* consumed.
ParkSpurious ==
    /\ wpc = "park"
    /\ ~token
    /\ wpc' = "recv"
    /\ WorkerStep
    /\ UNCHANGED <<queue, token, msg, w_frames, w_interval, play_anim, frame>>
    /\ UNCHANGED <<out, last, changed, chT, afterEnd, lastRecv, swm>>

\* Whether an End signal is queued.
EndQueued ==
    \E i \in 1..Len(queue) : queue[i].op = "End"

\* print!("\x1B[2K\r"); print!("{} {}", frames[frame], msg); flush. Indexing a
\* slice out of its bounds panics.
Render ==
    /\ wpc = "render"
    /\ IF frame < Len(w_frames)
       THEN /\ wpc' = "sleep"
            /\ last' = [idx |-> frame, glyph |-> w_frames[frame + 1], msg |-> msg,
                         prev |-> last.idx]
            /\ afterEnd' = IF EndQueued /\ afterEnd < 2 THEN afterEnd + 1 ELSE afterEnd
            /\ chT' = NoTable
            /\ swm' = IF swm.on THEN [swm EXCEPT !.shown = TRUE] ELSE swm
       ELSE /\ wpc' = "panicked"
            /\ UNCHANGED <<last, afterEnd, chT, swm>>
    /\ WorkerStep
    /\ UNCHANGED <<queue, token, msg, w_frames, w_interval, play_anim, frame>>
    /\ UNCHANGED <<out, changed, lastRecv>>

\* Mutant of NextFrame: every other frame is skipped.
NextFrameSkips(f, t) ==
    (f + 2) % Len(t)

\* Mutant of NextFrame: the index does not wrap around.
NextFrameNoWrap(f, t) ==
    f + 1

\* The index of the frame after frame f of table t. The remainder of a division
\* by zero panics.
NextFrame(f, t) ==
    (f + 1) % Len(t)

\* thread::sleep(interval) returns; frame = (frame + 1) % frames.len()
Sleep ==
    /\ wpc = "sleep"
    /\ IF Len(w_frames) > 0
       THEN /\ frame' = NextFrame(frame, w_frames)
            /\ wpc' = "recv"
       ELSE /\ wpc' = "panicked"
            /\ UNCHANGED frame
    /\ WorkerStep
    /\ UNCHANGED <<queue, token, msg, w_frames, w_interval, play_anim>>
    /\ UNCHANGED <<out, last, changed, chT, afterEnd, lastRecv, swm>>

\* The worker is about to write to stdout: a frame, or the erase or status line
\* of the signal it receives next.
AboutToWrite ==
    \/ wpc = "render"
    \/ /\ wpc = "recv"
       /\ queue # <<>>
       /\ Head(queue).op \in {"Finish", "Succ", "Fail", "End"}
    \/ /\ wpc = "recv"
       /\ queue = <<>>
       /\ SenderDropped

\* A write to stdout fails: print! panics, flush().unwrap() panics. The thread
\* unwinds and its Receiver is dropped.
WriteFail ==
    /\ AboutToWrite
    /\ wpc' = "panicked"
    /\ WorkerStep
    /\ UNCHANGED <<queue, token, msg, w_frames, w_interval, play_anim, frame>>
    /\ UNCHANGED <<out, last, changed, chT, afterEnd, lastRecv, swm>>

(* --------------------------- specification ---------------------------- *)

\* The calls on the handle, their messages taken from M.
HandleOver(M) ==
    \/ \E m \in M : message_(m)
    \/ \E d \in Intervals : interval_(d)
    \/ \E t \in Tables : frames_(t)
    \/ \E m \in M : change_message(m)
    \/ \E d \in Intervals : change_interval(d)
    \/ \E t \in Tables : change_frames(t)
    \/ start
    \/ \E m \in M : start_with_msg(m)
    \/ start_with_msg_start
    \/ finish
    \/ \E m \in StatusMsgs : success(m)
    \/ \E m \in StatusMsgs : fail(m)
    \/ Unpark
    \/ end
    \/ end_unpark
    \/ end_join
    \/ drop

Handle ==
    HandleOver(Msgs)

Worker ==
    \/ Recv
    \/ Park
    \/ Render
    \/ Sleep

Next ==
    \/ Handle
    \/ Worker
    \/ ParkSpurious
    \/ WriteFail

Spec ==
    Init /\ [][Next]_vars

\* The same program, called with two different messages and fewer calls.
MsgNext ==
    \/ HandleOver(Msgs2)
    \/ Worker
    \/ ParkSpurious
    \/ WriteFail

MsgSpec ==
    MsgInit /\ [][MsgNext]_vars

\* A call of one of the builder setters message, interval, frames.
BuilderCall(M) ==
    \/ \E m \in M : message_(m)
    \/ \E d \in Intervals : interval_(d)
    \/ \E t \in Tables : frames_(t)

\* The program used so that, once the animation thread is spawned, the
\* configuration is changed through change_message, change_interval and
\* change_frames only: the builder setters are called before the first start.
MirrorNext ==
    \/ HandleOver(Msgs2) /\ (anim = "none" \/ ~BuilderCall(Msgs2))
    \/ Worker
    \/ ParkSpurious
    \/ WriteFail

MirrorSpec ==
    MsgInit /\ [][MirrorNext]_vars

\* The scheduler runs each thread that can take a step: the worker's loop goes on,
\* and a call that was begun on the handle is carried through (its unpark, the
\* second half of start_with_msg, the join). No call has to be made, park need
\* not return spuriously, and no write has to fail.
HandleGoesOn ==
    Unpark \/ start_with_msg_start \/ end_unpark \/ end_join

Fairness ==
    /\ WF_vars(Worker)
    /\ WF_vars(HandleGoesOn)

FairSpec ==
    LiveInit /\ [][Next]_vars /\ Fairness

(* ------------------------------ claims -------------------------------- *)

\* The status lines of `lines` (entries of out) written by `who`, as <<mark, text>>.
RECURSIVE LinesOf(_, _)
LinesOf(lines, who) ==
    IF lines = <<>> THEN <<>>
    ELSE IF Head(lines)[1] = who
         THEN <<<<Head(lines)[2], Head(lines)[3]>>>> \o LinesOf(Tail(lines), who)
         ELSE LinesOf(Tail(lines), who)

\* The Succ / Fail signals of queue q, as <<mark, text>>.
RECURSIVE PendingStatus(_)
PendingStatus(q) ==
    IF q = <<>> THEN <<>>
    ELSE IF Head(q).op \in {"Succ", "Fail"}
         THEN <<<<IF Head(q).op = "Succ" THEN "succ" ELSE "fail", Head(q).arg>>>>
              \o PendingStatus(Tail(q))
         ELSE PendingStatus(Tail(q))

\* The success / fail calls of cs made with a link (l = TRUE) or without one
\* (l = FALSE), as <<mark, text>>.
RECURSIVE CallsWith(_, _)
CallsWith(cs, l) ==
    IF cs = <<>> THEN <<>>
    ELSE IF Head(cs).link = l
         THEN <<<<Head(cs).mark, Head(cs).msg>>>> \o CallsWith(Tail(cs), l)
         ELSE CallsWith(Tail(cs), l)

\* The worker takes a signal of kind op from the queue in this step.
Receives(op) ==
    /\ wpc = "recv"
    /\ queue # <<>>
    /\ Head(queue).op = op
    /\ queue' = Tail(queue)

\* The worker renders a frame in this step.
Renders ==
    /\ wpc = "render"
    /\ wpc' = "sleep"

\* C1: at most one animation thread is ever spawned for a Throbber: none while the
\* handle has no link, exactly one from the first start on, however many times the
\* animation is stopped and started again.
C1_OneWorker ==
    spawned = IF anim = "none" THEN 0 ELSE 1

\* A start reached the worker while it was stopped (a stop / start cycle) and
\* there is still one thread.
C1_Witness ==
    /\ spawned = 1
    /\ lastRecv.op = "Start"
    /\ ~lastRecv.play

\* C2: once end() has queued End, the worker renders at most one more frame, and
\* eventually the worker has ended and the join of end() has returned (hpc is
\* "ended", or "panicked" by the unwrap of a join that returned Err).
C2_EndTerminates ==
    /\ [](afterEnd <= 1)
    /\ (hpc = "end_unpark") ~> (WorkerGone /\ hpc \in {"ended", "panicked"})

\* end() returned for a worker that was stopped and took the token of end's
\* unpark in its park.
C2_Witness ==
    /\ hpc = "ended"
    /\ wpc = "done"
    /\ lastRecv.op = "End"
    /\ ~lastRecv.play
    /\ ~token

\* C3: after the handle is dropped without end() while a worker exists, the worker
\* eventually leaves its loop.
C3_DropTerminates ==
    (hpc = "dropped" /\ WorkerAlive) ~> WorkerGone

\* C4: while the worker lives, the status lines it has printed followed by the
\* Succ / Fail signals still queued are exactly the success / fail calls made with
\* a link, each once, in order, with its mark and its message; and right after the
\* worker receives Succ or Fail, play_anim is false.
C4_StatusLine ==
    /\ WorkerAlive =>
           LinesOf(out, "worker") \o PendingStatus(queue) = CallsWith(calls, TRUE)
    /\ lastRecv.op \in {"Succ", "Fail"} => ~play_anim

\* The worker printed two status lines, the second received while already stopped.
C4_Witness ==
    /\ Len(LinesOf(out, "worker")) = 2
    /\ lastRecv.op \in {"Succ", "Fail"}
    /\ ~lastRecv.play

\* C5: the status lines written by the caller are exactly the success / fail calls
\* made without a link, and while the handle has no link there is no worker, no
\* queued signal and no line written by a worker.
C5_NoLinkStatus ==
    /\ LinesOf(out, "caller") = CallsWith(calls, FALSE)
    /\ anim = "none" =>
           /\ spawned = 0
           /\ wpc = "none"
           /\ queue = <<>>
           /\ LinesOf(out, "worker") = <<>>

\* success or fail was called before any start.
C5_Witness ==
    /\ anim = "none"
    /\ Len(out) >= 1
    /\ out[1][1] = "caller"

\* C6: as long as no ChFrames was received, the first frame rendered is frame 0 of
\* the table and every later one is the cyclic successor of the frame rendered
\* before it, whatever happened in between (stops and starts included); the glyph
\* is the table's entry at that index.
C6_CyclicOrder ==
    [][(Renders /\ ~changed) =>
           /\ last'.idx = IF last = NoFrame THEN 0
                          ELSE (last.idx + 1) % Len(w_frames)
           /\ last'.glyph = w_frames[last'.idx + 1]]_vars

\* The worker rendered the last frame of its table and then the first again.
C6_Witness ==
    /\ wpc = "sleep"
    /\ ~changed
    /\ Len(w_frames) > 1
    /\ last.idx = 0
    /\ last.prev = Len(w_frames) - 1

\* C7: the first frame rendered after the worker received ChFrames(T) is T[0].
C7_ResetOnChFrames ==
    [][(Renders /\ chT # NoTable) =>
           /\ last'.idx = 0
           /\ last'.glyph = chT[1]]_vars

\* The frame before a ChFrames was frame 1, the frame after it is frame 0.
C7_Witness ==
    /\ wpc = "sleep"
    /\ changed
    /\ last.idx = 0
    /\ last.prev = 1

\* C8: an empty frame table is never installed, neither in the handle nor in the
\* worker.
C8_EmptyRejected ==
    /\ frames # EmptyF
    /\ wpc # "none" => w_frames # EmptyF

\* C9: no call on the handle panics, also after the worker has ended unexpectedly.
C9_NoPanic ==
    hpc # "panicked"

\* C10: when the worker receives Start while play_anim is true, its play_anim,
\* frame index, message, interval and frame table stay as they are.
C10_StartIdempotent ==
    [][(Receives("Start") /\ play_anim) =>
           UNCHANGED <<play_anim, frame, msg, w_interval, w_frames>>]_vars

\* A Start was received by a running worker that was past its first frame.
C10_Witness ==
    /\ lastRecv.op = "Start"
    /\ lastRecv.play
    /\ play_anim
    /\ frame > 0

\* The Start of a start_with_msg is the next signal the worker receives: the
\* ChMsg sent before it has been received.
SwmStartNext ==
    /\ queue # <<>>
    /\ Head(queue).op = "Start"
    /\ Head(queue).arg # NoArg

\* C11, as claimed: the first frame rendered after the worker applied the start of
\* start_with_msg(m) (for the first start: the first frame of the new worker)
\* shows m.
C11_FirstFrameShowsM ==
    [][(Renders /\ swm.on /\ ~swm.shown) => last'.msg = swm.m]_vars

\* C11, amended: the worker has m as its message when it receives the Start of
\* start_with_msg(m), so a frame rendered between the two signals shows m and a
\* stopped worker renders none; and the first frame rendered after the worker
\* applied that start shows m unless the worker received a later ChMsg before it.
C11_MsgBeforeStart ==
    [][/\ SwmStartNext => msg = Head(queue).arg[1]
       /\ (Renders /\ SwmStartNext) => (play_anim /\ last'.msg = Head(queue).arg[1])
       /\ (Renders /\ swm.on /\ ~swm.shown /\ ~swm.over) => last'.msg = swm.m]_vars

\* A worker stopped by success or fail was started again by start_with_msg(m) and
\* its first frame since showed m.
C11_Witness ==
    /\ swm.on
    /\ swm.shown
    /\ ~swm.over
    /\ LinesOf(out, "worker") # <<>>
    /\ wpc = "sleep"
    /\ last.msg = swm.m
    /\ swm.m # ""

\* C12: the step that spawns the worker leaves it at the top of its loop with
\* play_anim true, frame 0, an empty queue, and the message, interval and frame
\* table the handle holds at that moment.
C12_SpawnSeeded ==
    [][spawned' # spawned =>
           /\ wpc' = "recv"
           /\ play_anim'
           /\ frame' = 0
           /\ queue' = <<>>
           /\ msg' = message
           /\ w_interval' = interval
           /\ w_frames' = frames]_vars

\* A worker just spawned after its message, interval and table were all set
\* before the start, in three calls.
C12_Witness ==
    /\ spawned = 1
    /\ left = MaxOps - 4
    /\ wpc = "recv"
    /\ last = NoFrame
    /\ lastRecv = NoSignal
    /\ msg \in Msgs
    /\ w_interval \in Intervals
    /\ w_frames = ROTATE_F
    /\ play_anim
    /\ frame = 0

\* C13: a call that stores into a field of a handle that has a link without
\* being a change_* call (those store at the end, after their unpark), that is, a
\* builder setter called after start, sends nothing, unparks nothing and leaves
\* the worker's state as it is.
C13_BuilderAfterStart ==
    [][(/\ anim # "none"
        /\ hpc = "idle"
        /\ hpc' = "idle"
        /\ <<message, interval, frames>>' # <<message, interval, frames>>) =>
           UNCHANGED <<queue, token, wpc, msg, w_frames, w_interval, play_anim, frame>>]_vars

\* frames() was called after start: the handle holds another table than the
\* worker, which goes on with its own and has nothing to receive.
C13_Witness ==
    /\ anim = "some"
    /\ hpc = "idle"
    /\ queue = <<>>
    /\ ~changed
    /\ wpc = "sleep"
    /\ frames = ROTATE_F
    /\ w_frames = DEFAULT_F

\* C14: no wakeup is lost. Every signal queued is eventually received by the
\* worker, whatever the interleaving of send and unpark with the worker's empty
\* try_recv and park; the only signals never received are those queued for a
\* worker thread that has panicked, which is no longer alive.
C14_NoLostWakeup ==
    (queue # <<>>) ~> (queue = <<>> \/ wpc = "panicked")

\* The worker found its queue empty and is in (or about to call) park; since then
\* two signals were sent and the thread was unparked.
C14_Witness ==
    /\ wpc = "park"
    /\ token
    /\ Len(queue) >= 2

\* C15: the worker drains its queue before each render. It comes to the rendering
\* only from a try_recv that found the queue empty while play_anim is true; the
\* step after receiving a signal is another try_recv (or the end of the loop),
\* never a render; and the frame rendered shows the worker's current message and
\* the glyph of its current table, those left by every signal received so far.
C15_DrainBeforeRender ==
    [][/\ (wpc # "render" /\ wpc' = "render") =>
              (wpc = "recv" /\ queue = <<>> /\ play_anim /\ lastRecv' = NoSignal)
       /\ (wpc = "recv" /\ queue # <<>> /\ queue' = Tail(queue)) =>
              wpc' \in {"recv", "done"}
       /\ Renders => /\ lastRecv = NoSignal
                     /\ play_anim
                     /\ last'.msg = msg
                     /\ last'.glyph = w_frames[frame + 1]]_vars

\* The first frame ever rendered comes after the worker has received a Start, a
\* status, a ChFrames and a second Start: it shows the table of the ChFrames.
C15_Witness ==
    /\ wpc = "sleep"
    /\ last.prev = NoFrame.idx
    /\ last.glyph = ROTATE_F[1]
    /\ frames = ROTATE_F
    /\ changed
    /\ LinesOf(out, "worker") # <<>>
    /\ queue = <<>>

\* C16: a received Finish, Succ or Fail stops the animation, only a received Start
\* starts it again, and a frame is rendered only while it is started; a stopped
\* worker whose try_recv finds the queue empty (with the Sender still there) goes
\* to park and nowhere else.
C16_StoppedUntilStart ==
    /\ [](wpc \in {"render", "sleep"} => play_anim)
    /\ [][/\ (Receives("Finish") \/ Receives("Succ") \/ Receives("Fail")) =>
                 (~play_anim' /\ wpc' = "recv")
          /\ (WorkerAlive /\ ~play_anim /\ play_anim') => Receives("Start")
          /\ Renders => play_anim
          /\ (wpc = "recv" /\ ~play_anim /\ queue = <<>> /\ ~SenderDropped
                /\ wpc' # wpc) => wpc' = "park"]_vars

\* After rendering frames the worker received a Finish, found the queue empty and
\* is blocked in park: nothing is queued and there is no token.
C16_Witness ==
    /\ wpc = "park"
    /\ ~play_anim
    /\ last # NoFrame
    /\ lastRecv = NoSignal
    /\ queue = <<>>
    /\ ~token
    /\ hpc = "idle"
    /\ LinesOf(out, "worker") = <<>>

\* C17: with a non-empty frame table the worker's frame index is always within the
\* table, 0 <= frame < frames.len(), in particular where a frame is rendered,
\* whatever tables change_frames installed before and wherever the index was.
C17_IndexInRange ==
    (WorkerAlive /\ w_frames # EmptyF) => (0 <= frame /\ frame < Len(w_frames))

\* The last frame rendered was the tenth of the default table; a ChFrames with the
\* four-glyph table was received since and its first frame is about to be
\* rendered.
C17_Witness ==
    /\ wpc = "render"
    /\ last.idx = Len(DEFAULT_F) - 1
    /\ last.glyph = DEFAULT_F[Len(DEFAULT_F)]
    /\ chT = ROTATE_F
    /\ w_frames = ROTATE_F
    /\ frame = 0

\* C18: the caller writes a status line only in a step taken without a link, and
\* the handle is without a link exactly as long as no animation thread was ever
\* spawned for it; so whenever the caller writes there is no worker, and from the
\* spawn on every line is written by the worker.
C18_OneWriter ==
    /\ [](anim = "none" <=> spawned = 0)
    /\ [](spawned = 0 <=> wpc = "none")
    /\ [][LinesOf(out', "caller") # LinesOf(out, "caller") =>
              /\ anim = "none"
              /\ wpc = "none"
              /\ wpc' = "none"
              /\ spawned' = 0
              /\ last = NoFrame]_vars
    /\ [][(LinesOf(out', "worker") # LinesOf(out, "worker") \/ Renders) =>
              /\ WorkerAlive
              /\ anim # "none"
              /\ LinesOf(out', "caller") = LinesOf(out, "caller")]_vars

\* The caller wrote a status line itself; the worker was spawned afterwards, and
\* it has rendered frames and written a status line of its own.
C18_Witness ==
    /\ out # <<>>
    /\ out[1][1] = "caller"
    /\ LinesOf(out, "worker") # <<>>
    /\ WorkerAlive
    /\ last # NoFrame

\* C19, as claimed: whenever the worker is alive and its queue is empty, its
\* message, interval and frame table are those stored in the handle.
C19_MirrorAlways ==
    (WorkerAlive /\ queue = <<>>) =>
        (msg = message /\ w_interval = interval /\ w_frames = frames)

\* C19, amended: whenever the worker is alive and its queue is empty, its message,
\* interval and frame table are those stored in the handle, except between the
\* send of a change_* call and that call's store into the handle's field, where
\* the worker already has the value sent and the handle's field is still the old
\* one.
C19_Mirror ==
    (WorkerAlive /\ queue = <<>>) =>
        /\ msg = IF harg # NoArg /\ harg[1] = "message" THEN harg[2] ELSE message
        /\ w_interval = IF harg # NoArg /\ harg[1] = "interval" THEN harg[2] ELSE interval
        /\ w_frames = IF harg # NoArg /\ harg[1] = "frames" THEN harg[2] ELSE frames

\* After start, change_frames and change_message("b") the worker has just
\* received the ChMsg, the last signal queued, and the call has returned: worker
\* and handle agree on the new message and the new table.
C19_Witness ==
    /\ WorkerAlive
    /\ queue = <<>>
    /\ hpc = "idle"
    /\ harg = NoArg
    /\ lastRecv.op = "ChMsg"
    /\ changed
    /\ msg = "b"
    /\ message = "b"
    /\ w_frames = ROTATE_F
    /\ frames = ROTATE_F
    /\ left = 0

\* C20: when end() has returned, the status lines printed by the worker are
\* exactly the success / fail calls made with a link (those since the first
\* start), each once and in call order, and nothing is left in the queue; the End
\* signal is received last, after every Succ and Fail queued before it was
\* printed.
C20_EndAfterStatus ==
    /\ [](hpc = "ended" =>
              /\ queue = <<>>
              /\ LinesOf(out, "worker") = CallsWith(calls, TRUE)
              /\ anim = "taken" => wpc = "done")
    /\ [][Receives("End") =>
              /\ queue' = <<>>
              /\ LinesOf(out, "worker") = CallsWith(calls, TRUE)]_vars

\* start, success, fail and end were called before the worker rendered any frame:
\* End was queued behind both status signals, and end() has returned with both
\* lines printed, in call order.
C20_Witness ==
    /\ hpc = "ended"
    /\ wpc = "done"
    /\ last = NoFrame
    /\ LinesOf(out, "worker") = << <<"succ", "s">>, <<"fail", "s">> >>

=============================================================================
